---- MODULE Spec2Model ----
(***************************************************************************)
(* A model of detector/yolo.py: the YOLO model class (backend selection,   *)
(* image preparation, anchor decoding, post-processing) and the backend    *)
(* adapters it can construct.                                              *)
(*                                                                         *)
(* Spec        the life cycle Yolo(config) -> prep_image -> inference, on  *)
(*             tensor shapes, dictionary keys and raised exceptions.       *)
(* SpecSigmoid Yolo.sigmoid on one element, in float32 and float64.        *)
(* SpecDecode  Yolo.apply_anchors on one grid cell, on values.             *)
(* SpecPost    the post-processing of Yolo.inference on one decoded row.   *)
(* SpecLite    YoloTFLite.inference on the values of its output tensors.   *)
(***************************************************************************)
EXTENDS Integers, Sequences, FiniteSets, TLC

VARIABLES
    \* Spec: the configuration, the model artifact on disk, the position in
    \* the life cycle, the constructed adapter, the session, the exception
    \* raised (if any) and the shape of the detection matrix.
    config, artifact, pc, framework, sess, raised, output,
    \* SpecSigmoid: the input element, the array's float type, the result.
    x, dtype, y,
    \* SpecDecode: one grid cell of one raw feature map, and its decoded box.
    cell, bbox,
    \* SpecPost: one decoded row, the session's letterbox transform, and the
    \* detection row of each variant's run on that row.
    decoded, letterbox, runs,
    \* SpecLite: the interpreter's output tensors, the adapter's recorded
    \* fields, and the list the adapter's inference returns.
    interp, lite, lite_preds

lifeVars == <<config, artifact, pc, framework, sess, raised, output>>
sigVars == <<x, dtype, y>>
decVars == <<cell, bbox>>
postVars == <<decoded, letterbox, runs>>
liteVars == <<interp, lite, lite_preds>>
vars == <<lifeVars, sigVars, decVars, postVars, liteVars>>

\* The values of a specification's variables while another one runs.
NoValue == [cls |-> "none", e |-> 0, pow2 |-> FALSE]
SigIdle == x = 0 /\ dtype = "float32" /\ y = NoValue
DecIdle == cell = <<>> /\ bbox = <<>>
PostIdle == decoded = <<>> /\ letterbox = <<>> /\ runs = <<>>
LiteIdle == interp = <<>> /\ lite = <<>> /\ lite_preds = <<>>

(***************************************************************************)
(* Module-level tables (yolo.py lines 15-43).                              *)
(***************************************************************************)
IMAGE_SIZES ==
    "yolov3-tiny" :> 512 @@ "yolov3" :> 512 @@ "yolov4-tiny" :> 512 @@
    "yolov4" :> 512 @@ "yolov4-csp" :> 640 @@ "yolov4x-mish" :> 640

STRIDE_ANCHORS ==
    "yolov3-tiny" :> ( 16 :> << <<10, 14>>, <<23, 27>>, <<37, 58>> >> @@
                       32 :> << <<81, 82>>, <<135, 169>>, <<344, 319>> >> ) @@
    "yolov3" :>      ( 8 :> << <<10, 13>>, <<16, 30>>, <<33, 23>> >> @@
                       16 :> << <<30, 61>>, <<62, 45>>, <<59, 119>> >> @@
                       32 :> << <<116, 90>>, <<156, 198>>, <<373, 326>> >> ) @@
    "yolov4" :>      ( 8 :> << <<12, 16>>, <<19, 36>>, <<40, 28>> >> @@
                       16 :> << <<36, 75>>, <<76, 55>>, <<72, 146>> >> @@
                       32 :> << <<142, 110>>, <<192, 243>>, <<459, 401>> >> )

\* Exact rationals n/d stand for the floating-point numbers of the source.
RECURSIVE GCD(_, _)
GCD(a, b) == IF b = 0 THEN a ELSE GCD(b, a % b)

Abs(i) == IF i < 0 THEN -i ELSE i

Rat(n, d) ==
    LET s == IF d < 0 THEN -1 ELSE 1
        g == GCD(Abs(n), Abs(d))
    IN  [n |-> (s * n) \div g, d |-> (s * d) \div g]

RInt(i) == [n |-> i, d |-> 1]
RAdd(p, q) == Rat(p.n * q.d + q.n * p.d, p.d * q.d)
RSub(p, q) == Rat(p.n * q.d - q.n * p.d, p.d * q.d)
RMul(p, q) == Rat(p.n * q.n, p.d * q.d)
RLess(p, q) == p.n * q.d < q.n * p.d

STRIDE_XYSCALES ==
    "yolov3-tiny" :> (16 :> Rat(100, 100) @@ 32 :> Rat(100, 100)) @@
    "yolov3" :> (8 :> Rat(100, 100) @@ 16 :> Rat(100, 100) @@ 32 :> Rat(100, 100)) @@
    "yolov4" :> (8 :> Rat(105, 100) @@ 16 :> Rat(110, 100) @@ 32 :> Rat(120, 100))

\* The three anchors per cell and the 5 + 80 channels per anchor that
\* apply_anchors and inference hard-code (reshape(..., 3, 85)).
NumAnchors == 3
NumChannels == 85

(***************************************************************************)
(* Configurations and model artifacts.                                     *)
(***************************************************************************)
Models == DOMAIN IMAGE_SIZES \cup {"yolov5s"}

\* Identifiers of the adapter classes of the module, in the order of the
\* classes: YoloTFOnnx, YoloTFLite, YoloTF, YoloOnnxTF, YoloVino, YoloOnnx,
\* YoloTorch; "tensorrt" has no adapter.
AdapterOf ==
    "tf_onnx" :> "YoloTFOnnx" @@ "tflite" :> "YoloTFLite" @@ "tf" :> "YoloTF" @@
    "onnx_tf" :> "YoloOnnxTF" @@ "onnx_vino" :> "YoloVino" @@
    "torch_onnx" :> "YoloOnnx" @@ "torch" :> "YoloTorch"

Frameworks == DOMAIN AdapterOf \cup {"tensorrt"}

Quantizes == {"fp32", "int8"}

Configs == [model : Models, framework : Frameworks, quantize : Quantizes]

Resolutions == {416, 512, 640}

InputShapes ==
    {<<1, 3, r, r>> : r \in Resolutions} \cup {<<1, r, r, 3>> : r \in Resolutions}

InputNames == {<<"x:0">>, <<"images">>, <<"x:0", "images">>}

\* An output tensor of the engine: batch axis, grid, grid, channels.
FeatureMaps(grids, ch) == [i \in 1..Len(grids) |-> <<1, grids[i], grids[i], ch>>]

GridLists ==
    { <<64, 32, 16>>, <<16, 32, 64>>, <<32, 16>>, <<64, 32>>, <<32, 32, 16>>,
      <<60, 32, 16>>, <<17, 32, 16>>, <<80, 40, 20>>, <<64, 32, 16, 16>> }

OutputLists ==
    {FeatureMaps(gs, NumAnchors * NumChannels) : gs \in GridLists}
        \cup {FeatureMaps(<<32, 16>>, NumAnchors * 6)}

NoArtifact == [present |-> FALSE, input_names |-> <<>>, input_shape |-> <<>>,
               outputs |-> <<>>]

Artifacts ==
    {NoArtifact} \cup
    [present : {TRUE}, input_names : InputNames, input_shape : InputShapes,
     outputs : OutputLists]

(***************************************************************************)
(* Construction.                                                           *)
(***************************************************************************)
NoFramework == [kind |-> "none", input_name |-> "", n_out |-> 0,
                has_quant |-> FALSE, checked_axes |-> {}]

NoError == [exc |-> "none", at |-> "none"]
Error(exc, at) == [exc |-> exc, at |-> at]

Built(fw) == [fw |-> fw, err |-> NoError]
Failed(exc, at) == [fw |-> NoFramework, err |-> Error(exc, at)]

\* assert input_shape[a] == IMAGE_SIZES[config.model] for the two (0-based)
\* axes a, b; the table lookup raises KeyError before the comparison.
ResolutionError(cfg, art, a, b, at) ==
    IF cfg.model \notin DOMAIN IMAGE_SIZES THEN Error("KeyError", at)
    ELSE IF art.input_shape[a + 1] # IMAGE_SIZES[cfg.model] THEN Error("AssertionError", at)
    ELSE IF art.input_shape[b + 1] # IMAGE_SIZES[cfg.model] THEN Error("AssertionError", at)
    ELSE NoError

YoloTFOnnx_init(cfg, art) ==
    IF ~art.present THEN Failed("SystemError", "YoloTFOnnx")
    ELSE IF ~(Len(art.input_names) = 1 /\ art.input_names[1] = "x:0")
    THEN Failed("AssertionError", "YoloTFOnnx")
    ELSE IF ResolutionError(cfg, art, 2, 3, "YoloTFOnnx") # NoError
    THEN [fw |-> NoFramework, err |-> ResolutionError(cfg, art, 2, 3, "YoloTFOnnx")]
    ELSE Built([kind |-> "YoloTFOnnx", input_name |-> art.input_names[1],
                n_out |-> Len(art.outputs), has_quant |-> FALSE,
                checked_axes |-> {2, 3}])

YoloTFLite_init(cfg, art) ==
    IF ~art.present THEN Failed("SystemError", "YoloTFLite")
    ELSE IF ResolutionError(cfg, art, 1, 2, "YoloTFLite") # NoError
    THEN [fw |-> NoFramework, err |-> ResolutionError(cfg, art, 1, 2, "YoloTFLite")]
    ELSE Built([kind |-> "YoloTFLite", input_name |-> "images",
                n_out |-> Len(art.outputs), has_quant |-> (cfg.quantize = "int8"),
                checked_axes |-> {1, 2}])

\* The output names YoloTF asks load_frozen_graph for.
YoloTF_outputs(cfg) ==
    IF cfg.model \in {"yolov3-tiny"}
    THEN <<"Identity:0", "Identity_1:0">>
    ELSE <<"Identity:0", "Identity_1:0", "Identity_2:0">>

\* load_frozen_graph prunes the graph to the named input and outputs; it
\* fails when the graph has no input x:0 or fewer outputs than are named.
YoloTF_init(cfg, art) ==
    IF ~art.present THEN Failed("SystemError", "YoloTF")
    ELSE IF \/ \A i \in 1..Len(art.input_names) : art.input_names[i] # "x:0"
            \/ Len(art.outputs) < Len(YoloTF_outputs(cfg))
    THEN Failed("LoadError", "YoloTF")
    ELSE Built([kind |-> "YoloTF", input_name |-> "images",
                n_out |-> Len(YoloTF_outputs(cfg)), has_quant |-> FALSE,
                checked_axes |-> {}])

\* Yolo.__init__: the backend selector.
Yolo_init(cfg, art) ==
    IF cfg.framework = "tf" THEN YoloTF_init(cfg, art)
    ELSE IF cfg.framework = "tflite" THEN YoloTFLite_init(cfg, art)
    ELSE IF cfg.framework = "tf_onnx" THEN YoloTFOnnx_init(cfg, art)
    ELSE Failed("SystemError", "Yolo")

Construct ==
    /\ pc = "new"
    /\ framework' = Yolo_init(config, artifact).fw
    /\ raised' = Yolo_init(config, artifact).err
    /\ pc' = IF Yolo_init(config, artifact).err = NoError THEN "constructed" ELSE "failed"
    /\ UNCHANGED <<config, artifact, sess, output, sigVars, decVars, postVars, liteVars>>

(***************************************************************************)
(* Yolo.prep_image.                                                        *)
(***************************************************************************)
NoSession == [pad_image |-> <<>>, yolo_input |-> <<>>]

\* The frameworks for which prep_image transposes HWC -> CHW.
ChannelFirstFrameworks == {"torch", "torch_onnx", "onnx_vino", "onnx_tf", "tf_onnx"}

\* image.transpose((2, 0, 1)) on a shape.
Transpose201(shape) == <<shape[3], shape[1], shape[2]>>

\* The tensor prep_image builds from the padded image sess.pad_image.
PrepTensor(cfg, pad_image) ==
    LET image == IF cfg.framework \in ChannelFirstFrameworks
                 THEN Transpose201(pad_image) ELSE pad_image
    IN  [shape |-> <<1>> \o image,
         dtype |-> IF cfg.framework = "tflite" /\ cfg.quantize = "int8"
                   THEN "uint8" ELSE "float32"]

\* sess.padding_image(model_height, model_width) leaves a padded
\* height x width x 3 image in sess.pad_image.
PaddedImage(image_size) == <<image_size, image_size, 3>>

\* A slip in prep_image: the key is the literal 'images', not the adapter's
\* input name.
Yolo_prep_image_literalKey(cfg, fw, s) ==
    IF cfg.model \notin DOMAIN IMAGE_SIZES
    THEN [sess |-> s, err |-> Error("KeyError", "prep_image")]
    ELSE LET pad == PaddedImage(IMAGE_SIZES[cfg.model])
         IN  [sess |-> [pad_image |-> pad,
                        yolo_input |-> ("images" :> PrepTensor(cfg, pad))],
              err |-> NoError]

Yolo_prep_image(cfg, fw, s) ==
    IF cfg.model \notin DOMAIN IMAGE_SIZES
    THEN [sess |-> s, err |-> Error("KeyError", "prep_image")]
    ELSE LET pad == PaddedImage(IMAGE_SIZES[cfg.model])
         IN  [sess |-> [pad_image |-> pad,
                        yolo_input |-> (fw.input_name :> PrepTensor(cfg, pad))],
              err |-> NoError]

PrepImage ==
    /\ pc = "constructed"
    /\ sess' = Yolo_prep_image(config, framework, sess).sess
    /\ raised' = Yolo_prep_image(config, framework, sess).err
    /\ pc' = IF Yolo_prep_image(config, framework, sess).err = NoError
             THEN "prepped" ELSE "failed"
    /\ UNCHANGED <<config, artifact, framework, output, sigVars, decVars, postVars, liteVars>>

(***************************************************************************)
(* The adapters' inference, on shapes.  The engine refuses a feed whose    *)
(* names or shape are not those of the artifact's input.                   *)
(***************************************************************************)
Range(f) == {f[i] : i \in DOMAIN f}

\* np.squeeze(x, 0): the batch axis, always of size 1, is removed.
Squeeze0(shape) == Tail(shape)

\* tf.squeeze(x): every axis of size 1 is removed.
SqueezeAll(shape) == SelectSeq(shape, LAMBDA d : d # 1)

Preds(p) == [preds |-> p, err |-> NoError]
NoPreds(exc, at) == [preds |-> <<>>, err |-> Error(exc, at)]

YoloTFOnnx_inference(fw, art, s) ==
    IF DOMAIN s.yolo_input # Range(art.input_names)
    THEN NoPreds("EngineError", "YoloTFOnnx.inference")
    ELSE IF s.yolo_input[fw.input_name].shape # art.input_shape
    THEN NoPreds("EngineError", "YoloTFOnnx.inference")
    ELSE Preds([i \in 1..fw.n_out |-> Squeeze0(art.outputs[i])])

YoloTFLite_inference(fw, art, s) ==
    IF fw.input_name \notin DOMAIN s.yolo_input
    THEN NoPreds("KeyError", "YoloTFLite.inference")
    ELSE IF s.yolo_input[fw.input_name].shape # art.input_shape
    THEN NoPreds("EngineError", "YoloTFLite.inference")
    ELSE Preds([i \in 1..fw.n_out |-> Squeeze0(art.outputs[i])])

YoloTF_inference(fw, art, s) ==
    IF fw.input_name \notin DOMAIN s.yolo_input
    THEN NoPreds("KeyError", "YoloTF.inference")
    ELSE IF s.yolo_input[fw.input_name].shape # art.input_shape
    THEN NoPreds("EngineError", "YoloTF.inference")
    ELSE Preds([i \in 1..fw.n_out |-> SqueezeAll(art.outputs[i])])

Framework_inference(fw, art, s) ==
    IF fw.kind = "YoloTF" THEN YoloTF_inference(fw, art, s)
    ELSE IF fw.kind = "YoloTFLite" THEN YoloTFLite_inference(fw, art, s)
    ELSE YoloTFOnnx_inference(fw, art, s)

(***************************************************************************)
(* Yolo.apply_anchors and Yolo.inference, on shapes.                       *)
(***************************************************************************)
RECURSIVE Product(_)
Product(shape) == IF shape = <<>> THEN 1 ELSE Head(shape) * Product(Tail(shape))

Shape(sh) == [shape |-> sh, err |-> NoError]
NoShape(exc, at) == [shape |-> <<>>, err |-> Error(exc, at)]

\* stride = image_size // anchor_size
StrideOf(image_size, anchor_size) == image_size \div anchor_size

\* A slip in the final reshape: the anchor axis is lost, one row per cell.
ApplyOne_rowPerCell(cfg, pred) ==
    LET anchor_size == pred[1]
        stride == StrideOf(IMAGE_SIZES[cfg.model], anchor_size)
    IN  IF stride \notin DOMAIN STRIDE_ANCHORS[cfg.model]
        THEN NoShape("KeyError", "apply_anchors")
        ELSE IF Product(pred) # anchor_size * anchor_size * NumAnchors * NumChannels
        THEN NoShape("ValueError", "apply_anchors")
        ELSE Shape(<<anchor_size * anchor_size, NumChannels>>)

\* One pass of the loop body on pred: the shape of bbox, or what it raises.
ApplyOne(cfg, pred) ==
    LET anchor_size == pred[1]
        stride == StrideOf(IMAGE_SIZES[cfg.model], anchor_size)
    IN  IF stride \notin DOMAIN STRIDE_ANCHORS[cfg.model]
        THEN NoShape("KeyError", "apply_anchors")
        ELSE IF stride \notin DOMAIN STRIDE_XYSCALES[cfg.model]
        THEN NoShape("KeyError", "apply_anchors")
        ELSE IF Product(pred) # anchor_size * anchor_size * NumAnchors * NumChannels
        THEN NoShape("ValueError", "apply_anchors")
        ELSE Shape(<<anchor_size * anchor_size * NumAnchors, NumChannels>>)

\* The loop over preds and np.concatenate(applied, axis=0): rows add up.
RECURSIVE ApplyLoop(_, _, _)
ApplyLoop(cfg, preds, rows) ==
    IF preds = <<>> THEN Shape(<<rows, NumChannels>>)
    ELSE IF ApplyOne(cfg, Head(preds)).err # NoError THEN ApplyOne(cfg, Head(preds))
    ELSE ApplyLoop(cfg, Tail(preds), rows + ApplyOne(cfg, Head(preds)).shape[1])

Yolo_apply_anchors(cfg, preds) ==
    IF cfg.model \notin DOMAIN IMAGE_SIZES THEN NoShape("KeyError", "apply_anchors")
    ELSE IF cfg.model \notin DOMAIN STRIDE_ANCHORS THEN NoShape("KeyError", "apply_anchors")
    ELSE IF cfg.model \notin DOMAIN STRIDE_XYSCALES THEN NoShape("KeyError", "apply_anchors")
    ELSE IF preds = <<>> THEN NoShape("ValueError", "apply_anchors")
    ELSE ApplyLoop(cfg, preds, 0)

\* Yolo.inference after the decoder: the asserts on pred, then the columns
\* xyxy (4), cat (1) and conf (1) side by side.
PostShape(pred) ==
    IF Len(pred) # 2 \/ pred[2] # NumChannels THEN NoShape("AssertionError", "inference")
    ELSE Shape(<<pred[1], 4 + 1 + 1>>)

Yolo_inference(cfg, fw, art, s) ==
    LET run == Framework_inference(fw, art, s)
        applied == Yolo_apply_anchors(cfg, run.preds)
    IN  IF run.err # NoError THEN NoShape(run.err.exc, run.err.at)
        ELSE IF applied.err # NoError THEN applied
        ELSE PostShape(applied.shape)

Inference ==
    /\ pc = "prepped"
    /\ output' = Yolo_inference(config, framework, artifact, sess).shape
    /\ raised' = Yolo_inference(config, framework, artifact, sess).err
    /\ pc' = IF Yolo_inference(config, framework, artifact, sess).err = NoError
             THEN "inferred" ELSE "failed"
    /\ UNCHANGED <<config, artifact, framework, sess, sigVars, decVars, postVars, liteVars>>

(***************************************************************************)
(* Properties of the life cycle.                                           *)
(***************************************************************************)
\* The grid sizes of the feature maps the constructed adapter returns.
ReturnedGrids == [i \in 1..framework.n_out |-> artifact.outputs[i][2]]

RECURSIVE SumSq(_)
SumSq(gs) == IF gs = <<>> THEN 0 ELSE Head(gs) * Head(gs) + SumSq(Tail(gs))

HasTables(m) ==
    m \in DOMAIN IMAGE_SIZES \cap DOMAIN STRIDE_ANCHORS \cap DOMAIN STRIDE_XYSCALES

\* Every returned feature map is g x g x 3 x 85 for a grid size g whose
\* stride is in the variant's tables.
WellFormedMaps ==
    /\ HasTables(config.model)
    /\ \A i \in 1..framework.n_out :
        /\ artifact.outputs[i][4] = 255
        /\ (IMAGE_SIZES[config.model] \div artifact.outputs[i][2])
               \in DOMAIN STRIDE_ANCHORS[config.model]

AdapterRan == raised.at \notin {"YoloTF.inference", "YoloTFLite.inference",
                                "YoloTFOnnx.inference"}

\* C1: whenever Yolo.inference returns, its matrix has 3 * (g_1^2 + ... +
\* g_k^2) rows, one per anchor box of every returned feature map, and 6
\* columns; and it does return whenever the adapter returned feature maps
\* whose strides are in the variant's tables.
C1_OneRowPerAnchorBox ==
    /\ pc = "inferred" => output = <<3 * SumSq(ReturnedGrids), 6>>
    /\ (pc = "failed" /\ sess # NoSession /\ AdapterRan) => ~WellFormedMaps

C1_Witness ==
    /\ pc = "inferred"
    /\ ReturnedGrids = <<64, 32, 16>>
    /\ output = <<16128, 6>>

\* C2: the selector constructs an adapter for every backend identifier that
\* has an adapter class in the module, and rejects every other identifier
\* with no adapter constructed.
C2_SelectorCoversAdapters ==
    pc # "new" =>
        IF config.framework \in DOMAIN AdapterOf
        THEN raised # Error("SystemError", "Yolo")
        ELSE raised = Error("SystemError", "Yolo") /\ framework = NoFramework

\* C3: a model variant missing from a table is rejected at construction: no
\* run gets past construction and then fails in prep_image or in the anchor
\* decoder because the variant has no table entry.
C3_VariantRejectedAtConstruction ==
    /\ raised # Error("KeyError", "prep_image")
    /\ ~(raised = Error("KeyError", "apply_anchors") /\ ~HasTables(config.model))

\* C4: a constructed adapter holds an artifact with exactly one input whose
\* spatial dimensions are IMAGE_SIZES[model].
C4_ConstructedArtifactMatches ==
    framework # NoFramework =>
        /\ Len(artifact.input_names) = 1
        /\ config.model \in DOMAIN IMAGE_SIZES
        /\ \E r \in {IMAGE_SIZES[config.model]} :
               artifact.input_shape \in {<<1, 3, r, r>>, <<1, r, r, 3>>}

\* The strides of the returned feature maps, input_resolution / grid_size;
\* 0 stands for a grid size that does not divide the resolution.
ReturnedStrides ==
    [i \in 1..framework.n_out |->
        IF IMAGE_SIZES[config.model] % ReturnedGrids[i] = 0
        THEN IMAGE_SIZES[config.model] \div ReturnedGrids[i] ELSE 0]

\* C5: the anchor decoder returns boxes only if the strides of the returned
\* feature maps are, each once, exactly the strides of the variant's tables.
C5_StridesMatchTables ==
    pc = "inferred" =>
        /\ Range(ReturnedStrides) = DOMAIN STRIDE_ANCHORS[config.model]
        /\ Range(ReturnedStrides) = DOMAIN STRIDE_XYSCALES[config.model]
        /\ Cardinality(Range(ReturnedStrides)) = framework.n_out

\* The key under which the constructed adapter's inference looks for the
\* input tensor: YoloTFOnnx feeds the whole dictionary to the engine, which
\* knows its input by the artifact's name; the others index with 'images'.
KeyRead ==
    IF framework.kind = "YoloTFOnnx" THEN artifact.input_names[1] ELSE "images"

PreparedTensor == sess.yolo_input[KeyRead]

\* C10: after prep_image the session holds the input tensor under exactly
\* the key the constructed adapter's inference reads, channel-first iff the
\* adapter checked the resolution on axes 2 and 3, unsigned 8-bit iff the
\* adapter dequantizes its outputs; and inference never fails on the key.
C10_PreparedInputMatchesAdapter ==
    /\ sess # NoSession =>
        /\ DOMAIN sess.yolo_input = {KeyRead}
        /\ PreparedTensor.shape[2] = 3 <=> framework.checked_axes = {2, 3}
        /\ PreparedTensor.shape[4] = 3 <=> framework.checked_axes # {2, 3}
        /\ PreparedTensor.dtype = "uint8" <=>
               (framework.kind = "YoloTFLite" /\ config.quantize = "int8")
        /\ PreparedTensor.dtype = "uint8" <=> framework.has_quant
    /\ ~AdapterRan => /\ raised.exc = "EngineError"
                      /\ PreparedTensor.shape # artifact.input_shape

C10_Witness ==
    /\ pc = "inferred"
    /\ framework.kind = "YoloTFOnnx"
    /\ DOMAIN sess.yolo_input = {"x:0"}
    /\ sess.yolo_input["x:0"].shape = <<1, 3, 512, 512>>

Init ==
    /\ config \in Configs
    /\ artifact \in Artifacts
    /\ pc = "new"
    /\ framework = NoFramework
    /\ sess = NoSession
    /\ raised = NoError
    /\ output = <<>>
    /\ SigIdle /\ DecIdle /\ PostIdle /\ LiteIdle

Next == Construct \/ PrepImage \/ Inference

Spec == Init /\ [][Next]_vars

(***************************************************************************)
(* Floating-point numbers.  A positive float is known by the floor e of    *)
(* its binary logarithm and by whether it is exactly 2^e; arguments of exp *)
(* are counted in hundredths of ln 2, so that exp(c) is 2^(c/100).         *)
(***************************************************************************)
FloatFormat ==
    "float32" :> [p |-> 24, emax |-> 128, emin |-> -149] @@
    "float64" :> [p |-> 53, emax |-> 1024, emin |-> -1074]

FZero == [cls |-> "zero", e |-> 0, pow2 |-> FALSE]
FInf == [cls |-> "inf", e |-> 0, pow2 |-> FALSE]
Fin(e, pow2) == [cls |-> "fin", e |-> e, pow2 |-> pow2]

\* np.exp(c): overflows to inf, underflows to 0.
FExp(c, fmt) ==
    IF c \div 100 >= fmt.emax THEN FInf
    ELSE IF c \div 100 < fmt.emin THEN FZero
    ELSE Fin(c \div 100, c % 100 = 0)

\* 1.0 + v, rounded to nearest-even at fmt.p bits: v is absorbed when it is
\* at most half a unit in the last place of 1.0.
FAdd1(v, fmt) ==
    IF v.cls = "inf" THEN FInf
    ELSE IF v.cls = "zero" THEN Fin(0, TRUE)
    ELSE IF v.e < -fmt.p \/ (v.e = -fmt.p /\ v.pow2) THEN Fin(0, TRUE)
    ELSE IF v.e < 0 THEN Fin(0, FALSE)
    ELSE IF v.e = 0 /\ v.pow2 THEN Fin(1, TRUE)
    ELSE Fin(v.e, v.pow2 /\ v.e >= fmt.p)

\* 1.0 / w for w >= 1.
FRecip(w, fmt) ==
    IF w.cls = "inf" THEN FZero
    ELSE IF w.pow2 THEN (IF -w.e < fmt.emin THEN FZero ELSE Fin(-w.e, TRUE))
    ELSE IF -w.e - 1 < fmt.emin THEN FZero ELSE Fin(-w.e - 1, FALSE)

(***************************************************************************)
(* Yolo.sigmoid.                                                           *)
(***************************************************************************)
\* sigmoid_range = 34.538776394910684 = 49.82... * ln 2, in hundredths of
\* ln 2 and rounded towards zero.
SigmoidRange == 4982

\* np.clip(v, lo, hi)
Clip(v, lo, hi) == IF v < lo THEN lo ELSE IF v > hi THEN hi ELSE v

Yolo_sigmoid(v, dt) ==
    LET clipped == Clip(v, -SigmoidRange, SigmoidRange)
    IN  FRecip(FAdd1(FExp(-clipped, FloatFormat[dt]), FloatFormat[dt]), FloatFormat[dt])

\* The largest input magnitude drawn, in multiples of ln 2.
MaxBits == 60

Logits == -(100 * MaxBits)..(100 * MaxBits)

SigmoidInit ==
    /\ x \in Logits
    /\ dtype \in DOMAIN FloatFormat
    /\ y = NoValue
    /\ config = <<>> /\ artifact = <<>> /\ pc = "idle" /\ framework = <<>>
    /\ sess = <<>> /\ raised = <<>> /\ output = <<>>
    /\ DecIdle /\ PostIdle /\ LiteIdle

Sigmoid ==
    /\ y = NoValue
    /\ y' = Yolo_sigmoid(x, dtype)
    /\ UNCHANGED <<x, dtype, lifeVars, decVars, postVars, liteVars>>

SigmoidNext == Sigmoid

SpecSigmoid == SigmoidInit /\ [][SigmoidNext]_vars

\* C9: for any input magnitude, in float32 and in float64, the clamped
\* sigmoid is finite and strictly between 0 and 1.
C9_SigmoidStrictlyInside ==
    y # NoValue => y.cls = "fin" /\ y.e < 0

(***************************************************************************)
(* Yolo.apply_anchors on the values of one grid cell.  The feature maps    *)
(* are float32 arrays; the raw values drawn are those whose sigmoid and    *)
(* exp float32 computes exactly: a power of two, held as a rational.       *)
(***************************************************************************)
RECURSIVE Pow2(_)
Pow2(k) == IF k = 0 THEN 1 ELSE 2 * Pow2(k - 1)

\* The value of a float that is zero or a power of two.
FValue(v) ==
    IF v.cls = "zero" THEN RInt(0)
    ELSE IF v.e >= 0 THEN RInt(Pow2(v.e)) ELSE Rat(1, Pow2(-v.e))

Classes == 0..(NumChannels - 6)

\* np.split(pred, (2, 4, 5), axis=-1) of the 85 channels of one anchor.
SplitChannels(channels) ==
    [xy |-> <<channels[1], channels[2]>>, wh |-> <<channels[3], channels[4]>>,
     conf |-> channels[5], prob |-> [k \in Classes |-> channels[6 + k]]]

\* np.arange(n)
Arange(n) == [k \in 1..n |-> k - 1]

\* np.meshgrid(np.arange(n), np.arange(n)) stacked on the last axis, at
\* grid position [i, j]: the first coordinate runs along the columns.
AnchorOffset(n, i, j) == <<Arange(n)[j + 1], Arange(n)[i + 1]>>

\* A slip: the grid-sensitivity shift is left out.
GridXY_noShift(s, xyscale, offset, stride) ==
    RMul(RAdd(RMul(s, xyscale), RInt(offset)), RInt(stride))

\* ((sigmoid(xy) * xyscale) - (0.5 * (xyscale - 1)) + anchor_offset) * strides
GridXY(s, xyscale, offset, stride) ==
    RMul(RAdd(RSub(RMul(s, xyscale), RMul(Rat(5, 10), RSub(xyscale, RInt(1)))),
              RInt(offset)),
         RInt(stride))

\* np.exp(wh) * anchor
AnchorWH(t, prior) == RMul(FValue(FExp(t, FloatFormat["float32"])), RInt(prior))

Sig32(t) == FValue(Yolo_sigmoid(t, "float32"))

NoBox == [xy |-> <<>>, wh |-> <<>>, conf |-> <<>>, prob |-> <<>>]

\* The loop body of apply_anchors for the anchor a (0, 1, 2) of the cell at
\* row i, column j of a feature map of grid size c.g, with the 85 raw
\* channels c.channels: the row of bbox, or the exception raised.
Yolo_apply_cell(c) ==
    IF c.model \notin DOMAIN STRIDE_ANCHORS \/ c.model \notin DOMAIN STRIDE_XYSCALES
    THEN [box |-> NoBox, err |-> Error("KeyError", "apply_anchors")]
    ELSE LET image_size == IMAGE_SIZES[c.model]
             anchors == STRIDE_ANCHORS[c.model]
             xyscales == STRIDE_XYSCALES[c.model]
             anchor_size == c.g
             stride == StrideOf(image_size, anchor_size)
             strides == <<stride, stride>>
         IN  IF stride \notin DOMAIN anchors \/ stride \notin DOMAIN xyscales
             THEN [box |-> NoBox, err |-> Error("KeyError", "apply_anchors")]
             ELSE LET anchor == anchors[stride]
                      xyscale == xyscales[stride]
                      raw == SplitChannels(c.channels)
                      anchor_offset == AnchorOffset(anchor_size, c.i, c.j)
                  IN  [box |->
                         [xy |-> [d \in 1..2 |->
                                    GridXY(Sig32(raw.xy[d]), xyscale,
                                           anchor_offset[d], strides[d])],
                          wh |-> [d \in 1..2 |-> AnchorWH(raw.wh[d], anchor[c.a + 1][d])],
                          conf |-> Sig32(raw.conf),
                          prob |-> [k \in Classes |-> Sig32(raw.prob[k])]],
                       err |-> NoError]

\* The largest row and column index drawn.
MaxCell == 15

Min(a, b) == IF a < b THEN a ELSE b

\* Raw channels: tx, ty, tw, th, the objectness, and the class logits, all
\* zero but for one class.
Channels(tx, ty, tw, th, tc, hot) ==
    [n \in 1..NumChannels |->
        IF n = 1 THEN tx ELSE IF n = 2 THEN ty ELSE IF n = 3 THEN tw
        ELSE IF n = 4 THEN th ELSE IF n = 5 THEN tc
        ELSE IF n = 6 + hot THEN 3000 ELSE 0]

ZeroChannels == [n \in 1..NumChannels |-> 0]

RawChannels ==
    {ZeroChannels, Channels(3000, 0, 100, -100, 3000, 79),
     Channels(0, 3000, -200, 100, 0, 0)}

Cells ==
    {c \in [model : DOMAIN IMAGE_SIZES, g : {16, 32, 64}, i : 0..MaxCell,
            j : 0..MaxCell, a : 0..(NumAnchors - 1), channels : RawChannels] :
        c.i < c.g /\ c.j < c.g}

DecodeInit ==
    /\ cell \in Cells
    /\ bbox = <<>>
    /\ config = <<>> /\ artifact = <<>> /\ pc = "idle" /\ framework = <<>>
    /\ sess = <<>> /\ raised = <<>> /\ output = <<>>
    /\ SigIdle /\ PostIdle /\ LiteIdle

Decode ==
    /\ bbox = <<>>
    /\ bbox' = Yolo_apply_cell(cell)
    /\ UNCHANGED <<cell, lifeVars, sigVars, postVars, liteVars>>

DecodeNext == Decode

SpecDecode == DecodeInit /\ [][DecodeNext]_vars

Decoded == bbox # <<>> /\ bbox.err = NoError

CellStride == IMAGE_SIZES[cell.model] \div cell.g

ZeroCell16 == Decoded /\ cell.g = 16 /\ cell.channels = ZeroChannels

\* C7 as stated: an all-zero 16 x 16 feature map decodes to boxes centred at
\* each cell's top-left corner, (column * stride, row * stride), with the
\* anchor prior as width and height.
C7_ZeroTensorAtCellCorner ==
    ZeroCell16 =>
        /\ bbox.box.xy = <<RInt(cell.j * CellStride), RInt(cell.i * CellStride)>>
        /\ bbox.box.wh = <<RInt(STRIDE_ANCHORS[cell.model][CellStride][cell.a + 1][1]),
                           RInt(STRIDE_ANCHORS[cell.model][CellStride][cell.a + 1][2])>>

\* C7 amended: an all-zero feature map (16 x 16, and likewise the other
\* grids of the tables) decodes to boxes centred at each cell's centre,
\* ((column + 1/2) * stride, (row + 1/2) * stride), with the anchor prior as
\* width and height, for every grid-scale value of the tables.
C7_ZeroTensorAtCellCentre ==
    (Decoded /\ cell.channels = ZeroChannels) =>
        /\ bbox.box.xy = <<Rat((2 * cell.j + 1) * CellStride, 2),
                           Rat((2 * cell.i + 1) * CellStride, 2)>>
        /\ bbox.box.wh = <<RInt(STRIDE_ANCHORS[cell.model][CellStride][cell.a + 1][1]),
                           RInt(STRIDE_ANCHORS[cell.model][CellStride][cell.a + 1][2])>>

C7_Witness ==
    /\ ZeroCell16
    /\ cell.model = "yolov4" /\ cell.i = 2 /\ cell.j = 5 /\ cell.a = 1
    /\ bbox.box.xy = <<RInt(176), RInt(80)>>
    /\ bbox.box.wh = <<RInt(192), RInt(243)>>

(***************************************************************************)
(* The post-processing of Yolo.inference on the values of one row of pred. *)
(***************************************************************************)
RDiv(p, q) == Rat(p.n * q.d, p.d * q.n)

\* Session.rescale_xyxy: the inverse of the letterbox transform, which
\* subtracts the padding offset and divides by the scale factor.
Session_rescale_xyxy(xyxy, lb) ==
    <<RDiv(RSub(xyxy[1], lb.pad_x), lb.scale), RDiv(RSub(xyxy[2], lb.pad_y), lb.scale),
      RDiv(RSub(xyxy[3], lb.pad_x), lb.scale), RDiv(RSub(xyxy[4], lb.pad_y), lb.scale)>>

\* The tenth root of n, rounded down; n is below 2^31.
Root10(n) == CHOOSE r \in 0..8 : r ^ 10 <= n /\ (r = 8 \/ (r + 1) ^ 10 > n)

\* np.power(q, 0.3): exact when numerator and denominator are tenth
\* powers, as those of every value drawn are.
Pow03(q) == Rat(Root10(q.n) ^ 3, Root10(q.d) ^ 3)

\* A slip: the calibration is applied whatever the variant.
Calibrate_everyVariant(model, cat_conf) == [k \in DOMAIN cat_conf |-> Pow03(cat_conf[k])]

\* if self.config.model == 'yolov3-tiny': cat_conf = np.power(cat_conf, 0.3)
Calibrate(model, cat_conf) ==
    IF model = "yolov3-tiny"
    THEN [k \in DOMAIN cat_conf |-> Pow03(cat_conf[k])]
    ELSE cat_conf

\* v.argmax(): the first index of the largest entry.
ArgMax(v) ==
    CHOOSE k \in DOMAIN v :
        /\ \A l \in DOMAIN v : ~RLess(v[k], v[l])
        /\ \A l \in DOMAIN v : l < k => RLess(v[l], v[k])

\* v.max()
MaxOf(v) == v[ArgMax(v)]

\* Yolo.inference on one row of pred: the row of the detection matrix.
Yolo_post_row(model, row, lb) ==
    LET xywh == SubSeq(row, 1, 4)
        half == Rat(5, 10)
        xyxy == <<RSub(xywh[1], RMul(xywh[3], half)), RSub(xywh[2], RMul(xywh[4], half)),
                  RAdd(xywh[1], RMul(xywh[3], half)), RAdd(xywh[2], RMul(xywh[4], half))>>
        conf == row[5]
        prob == [k \in Classes |-> row[6 + k]]
        cat_conf == Calibrate(model, [k \in Classes |-> RMul(conf, prob[k])])
    IN  Session_rescale_xyxy(xyxy, lb) \o <<RInt(ArgMax(cat_conf)), MaxOf(cat_conf)>>

\* The variants whose runs get as far as the post-processing.
PostVariants == DOMAIN STRIDE_ANCHORS

\* Rows of pred: a box, an objectness, and class probabilities all equal
\* to base but for one class.
Row(box, conf, base, hot, p) ==
    [n \in 1..NumChannels |->
        IF n <= 4 THEN RInt(box[n]) ELSE IF n = 5 THEN conf
        ELSE IF n = 6 + hot THEN p ELSE base]

Rows ==
    {Row(box, conf, base, hot, p) :
        box \in {<<176, 80, 192, 243>>, <<8, 500, 10, 13>>},
        conf \in {RInt(1), Rat(1, 1024)},
        base \in {RInt(0), Rat(1, 59049)},
        hot \in {0, 41, 79},
        p \in {RInt(1), Rat(1, 1024)}}

Letterboxes ==
    [pad_x : {RInt(0), RInt(64)}, pad_y : {RInt(0)}, scale : {RInt(1), Rat(4, 5)}]

PostInit ==
    /\ decoded \in Rows
    /\ letterbox \in Letterboxes
    /\ runs = [m \in PostVariants |-> <<>>]
    /\ config = <<>> /\ artifact = <<>> /\ pc = "idle" /\ framework = <<>>
    /\ sess = <<>> /\ raised = <<>> /\ output = <<>>
    /\ SigIdle /\ DecIdle /\ LiteIdle

Postprocess ==
    \E m \in PostVariants :
        /\ runs[m] = <<>>
        /\ runs' = [runs EXCEPT ![m] = Yolo_post_row(m, decoded, letterbox)]
        /\ UNCHANGED <<decoded, letterbox, lifeVars, sigVars, decVars, liteVars>>

PostNext == Postprocess

SpecPost == PostInit /\ [][PostNext]_vars

\* C6: two runs on the same decoded row that differ only in the variant
\* give the same box coordinates; their confidences differ by exactly the
\* power-0.3 transform when one of the variants is yolov3-tiny, and are
\* equal otherwise.
C6_CalibrationIffTiny ==
    \A m1, m2 \in PostVariants :
        (runs[m1] # <<>> /\ runs[m2] # <<>>) =>
            /\ SubSeq(runs[m1], 1, 4) = SubSeq(runs[m2], 1, 4)
            /\ (m1 = "yolov3-tiny" /\ m2 # "yolov3-tiny") =>
                   runs[m1][6] = Pow03(runs[m2][6])
            /\ (m1 # "yolov3-tiny" /\ m2 # "yolov3-tiny") =>
                   runs[m1][6] = runs[m2][6]

C6_Witness ==
    /\ runs["yolov3-tiny"] # <<>> /\ runs["yolov4"] # <<>> /\ runs["yolov3"] # <<>>
    /\ runs["yolov4"][6] = Rat(1, 1024)
    /\ runs["yolov3-tiny"][6] = Rat(1, 8)

(***************************************************************************)
(* YoloTFLite on the values of its output tensors.  A tensor is a batch of *)
(* one: a one-element sequence holding the value of its elements.          *)
(***************************************************************************)
\* The fields YoloTFLite.__init__ records from the output details.
YoloTFLite_outputs(quantize, output_details) ==
    [quantize |-> quantize,
     output_indexes |-> [n \in DOMAIN output_details |-> output_details[n].index],
     output_quant_params |->
        IF quantize = "int8"
        THEN [n \in DOMAIN output_details |-> output_details[n].quantization_parameters]
        ELSE <<>>]

\* A slip: the scale is applied before the zero point is subtracted.
Dequantize_scaleFirst(raw, params) ==
    [b \in DOMAIN raw |-> RSub(RMul(raw[b], params.scales), RInt(params.zero_points))]

\* (raw.astype(np.float32) - params['zero_points']) * params['scales']
Dequantize(raw, params) ==
    [b \in DOMAIN raw |-> RMul(RSub(raw[b], RInt(params.zero_points)), params.scales)]

\* np.squeeze(t, 0) on a batch of one.
SqueezeBatch(t) == t[1]

\* YoloTFLite.inference after interpreter.invoke(): zip pairs the recorded
\* indexes and quantization parameters position by position.
YoloTFLite_inference_values(l, tensors) ==
    LET preds ==
            IF l.quantize = "int8"
            THEN [n \in 1..Min(Len(l.output_indexes), Len(l.output_quant_params)) |->
                     Dequantize(tensors[l.output_indexes[n]], l.output_quant_params[n])]
            ELSE [n \in DOMAIN l.output_indexes |-> tensors[l.output_indexes[n]]]
    IN  [n \in DOMAIN preds |-> SqueezeBatch(preds[n])]

QuantParams == [scales : {Rat(1, 2), Rat(1, 4)}, zero_points : {0, 128}]

\* Two outputs, at the interpreter's tensor indexes 5 and 9 in either order.
OutputDetails ==
    {d \in [1..2 -> [index : {5, 9}, quantization_parameters : QuantParams]] :
        d[1].index # d[2].index}

RawValues == {<<RInt(0)>>, <<RInt(255)>>}

LiteInit ==
    /\ interp \in [output_details : OutputDetails, tensors : [{5, 9} -> RawValues]]
    /\ \E q \in {"fp32", "fp16", "int8"} :
           lite = YoloTFLite_outputs(q, interp.output_details)
    /\ lite_preds = <<>>
    /\ config = <<>> /\ artifact = <<>> /\ pc = "idle" /\ framework = <<>>
    /\ sess = <<>> /\ raised = <<>> /\ output = <<>>
    /\ SigIdle /\ DecIdle /\ PostIdle

LiteInference ==
    /\ lite_preds = <<>>
    /\ lite_preds' = YoloTFLite_inference_values(lite, interp.tensors)
    /\ UNCHANGED <<interp, lite, lifeVars, sigVars, decVars, postVars>>

LiteNext == LiteInference

SpecLite == LiteInit /\ [][LiteNext]_vars

\* The raw value and the quantization parameters of the interpreter's n-th
\* output.
RawOf(n) == interp.tensors[interp.output_details[n].index][1]
ParamsOf(n) == interp.output_details[n].quantization_parameters

\* C8: with int8 quantization the n-th tensor returned is the n-th raw
\* output dequantized with the n-th output's own parameters,
\* (raw - zero_point) * scale; with any other mode it is the raw output.
C8_PerTensorDequantization ==
    lite_preds # <<>> =>
        /\ Len(lite_preds) = Len(interp.output_details)
        /\ \A n \in DOMAIN interp.output_details :
            lite_preds[n] =
                IF lite.quantize = "int8"
                THEN RMul(RSub(RawOf(n), RInt(ParamsOf(n).zero_points)), ParamsOf(n).scales)
                ELSE RawOf(n)

\* Raw 0 with zero point 128 and scale 0.5 gives -64, beside an output
\* with other parameters.
C8_Witness ==
    /\ lite_preds # <<>>
    /\ lite.quantize = "int8"
    /\ RawOf(1) = RInt(0) /\ ParamsOf(1) = [scales |-> Rat(1, 2), zero_points |-> 128]
    /\ ParamsOf(2) # ParamsOf(1)
    /\ lite_preds[1] = RInt(-64)
====
